---- MODULE Spec2Model ----
(***************************************************************************)
(* Model of the sparse store of aertje/sparse-store (store/store.go).      *)
(*                                                                         *)
(* The store keeps a list of entries {order, offset, data}, sorted by      *)
(* offset, and the counters insertCount, occupancy and length.  Set        *)
(* inserts an entry and runs compact; Get and Has scan the list.           *)
(*                                                                         *)
(* Go slices are modelled as TLA+ sequences, so a Go index k (0-based) is  *)
(* the TLA+ index k + 1.  Every Set is given a buffer that no stored entry *)
(* aliases (the caller does not reuse or mutate a buffer it handed over).  *)
(***************************************************************************)
EXTENDS Integers, Sequences, FiniteSets, TLC

\* Bounds of the model.
MaxCalls == 3
MaxOffset == 2
MaxLen == 2
MaxVal == 2

\* store.go:9
defaultMinContiguous == 16384

\* The values a caller stores; 0 is the zero value of T and is never written,
\* so a position that reads 0 was not copied into.
Values == 1..MaxVal
Offsets == 0..MaxOffset
Buffers == UNION {[1..n -> Values] : n \in 0..MaxLen}
\* Thresholds given to WithMinContiguous: "never merge" (1, store_test.go:30),
\* a small threshold, and the default.
MinContiguousChoices == {1, 2, defaultMinContiguous}

VARIABLES
    minContiguous,  \* Store.minContiguous
    entries,        \* Store.entries
    insertCount,    \* Store.insertCount
    occupancy,      \* Store.occupancy
    length,         \* Store.length
    calls,          \* history: the Set calls made so far, in order
    ncalls,         \* the number of calls the caller has made on the store
    ret,            \* the last operation, its arguments and what it returned
    pc,             \* "idle", or "compact" while a Set is inside compact
    compactI        \* the loop index i of compact while pc = "compact"

vars == <<minContiguous, entries, insertCount, occupancy, length, calls, ncalls,
          ret, pc, compactI>>

----------------------------------------------------------------------------
\* Helpers for Go's slice operations.

\* make([]T, n): n zero values.
ZeroBuf(n) == [k \in 1..n |-> 0]

\* s[from:] and s[:to] with Go's 0-based bounds.
SliceFrom(s, from) == SubSeq(s, from + 1, Len(s))
SliceTo(s, to) == SubSeq(s, 1, to)

\* copy(dst[at:], src): min(len(dst)-at, len(src)) elements are copied.
Copy(dst, at, src) ==
    [k \in 1..Len(dst) |->
        IF k > at /\ k - at <= Len(src) THEN src[k - at] ELSE dst[k]]

\* slices.Insert(s, i, v)
Insert(s, i, v) == SubSeq(s, 1, i) \o <<v>> \o SubSeq(s, i + 1, Len(s))

\* append(s[:i+1], s[i+1:]...): an off-by-one that removes nothing.
DeleteNothing(s, i) == SubSeq(s, 1, i + 1) \o SubSeq(s, i + 2, Len(s))

\* append(s[:i], s[i+1:]...): an off-by-one that removes current, not next.
DeleteCurrent(s, i) == SubSeq(s, 1, i) \o SubSeq(s, i + 2, Len(s))

\* append(s[:i+1], s[i+2:]...): the element at Go index i+1 is removed.
Delete(s, i) == SubSeq(s, 1, i + 1) \o SubSeq(s, i + 3, Len(s))

\* sort.Search(n, f): binary search for the smallest index in [lo, hi) at
\* which e[i].offset >= x.
RECURSIVE SortSearch(_, _, _, _)
SortSearch(e, x, lo, hi) ==
    IF lo < hi
    THEN LET h == (lo + hi) \div 2
         IN  IF ~(e[h + 1].offset >= x)
             THEN SortSearch(e, x, h + 1, hi)
             ELSE SortSearch(e, x, lo, h)
    ELSE lo

\* A Search that leaves the binary search out: the new entry goes to the end
\* of the list.
SearchAppend(e, x) == Len(e)

Search(e, x) == SortSearch(e, x, 0, Len(e))

----------------------------------------------------------------------------
\* The store as a value, so that operations can be applied to any store.

NewStore(minC) ==
    [minContiguous |-> minC, entries |-> <<>>, insertCount |-> 0,
     occupancy |-> 0, length |-> 0]

Occupancy(c) == c.occupancy

Length(c) == c.length

\* HasScan without the gap test of line 77: a scan that walks over a gap.
RECURSIVE HasScanNoGap(_, _, _, _, _)
HasScanNoGap(es, k, offset, len, completeTo) ==
    IF k > Len(es) THEN completeTo
    ELSE LET entry == es[k]
         IN  IF entry.offset + Len(entry.data) < offset
             THEN HasScanNoGap(es, k + 1, offset, len, completeTo)
             ELSE IF entry.offset > offset + len
                  THEN completeTo
                  ELSE HasScanNoGap(es, k + 1, offset, len,
                                    entry.offset + Len(entry.data))

\* Has: the completeness scan.  HasScan is the loop from entry k on.
RECURSIVE HasScan(_, _, _, _, _)
HasScan(es, k, offset, len, completeTo) ==
    IF k > Len(es) THEN completeTo
    ELSE LET entry == es[k]
         IN  IF entry.offset + Len(entry.data) < offset
             THEN HasScan(es, k + 1, offset, len, completeTo)
             ELSE IF entry.offset > offset + len \/ completeTo < entry.offset
                  THEN completeTo
                  ELSE HasScan(es, k + 1, offset, len,
                               entry.offset + Len(entry.data))

Has(c, offset, len) ==
    IF Len(c.entries) = 0 /\ len > 0
    THEN FALSE
    ELSE HasScan(c.entries, 1, offset, len, offset) >= offset + len

\* GetScan that never clears `complete` at a gap (lines 107-109 left out).
RECURSIVE GetScanNoFlag(_, _, _, _, _, _)
GetScanNoFlag(es, k, offset, p, completeTo, complete) ==
    IF k > Len(es)
    THEN [completeTo |-> completeTo, complete |-> complete, p |-> p]
    ELSE LET entry == es[k]
         IN  IF entry.offset + Len(entry.data) < offset
             THEN GetScanNoFlag(es, k + 1, offset, p, completeTo, complete)
             ELSE IF entry.offset > offset + Len(p)
                  THEN [completeTo |-> completeTo, complete |-> complete, p |-> p]
                  ELSE LET offsetDelta == entry.offset - offset
                           p2 == IF offsetDelta < 0
                                 THEN Copy(p, 0, SliceFrom(entry.data, -offsetDelta))
                                 ELSE Copy(p, offsetDelta, entry.data)
                       IN  GetScanNoFlag(es, k + 1, offset, p2,
                                         entry.offset + Len(entry.data), complete)

\* GetScan that stops at the first gap, as the loop of Has does (line 77).
RECURSIVE GetScanStopsAtGap(_, _, _, _, _, _)
GetScanStopsAtGap(es, k, offset, p, completeTo, complete) ==
    IF k > Len(es)
    THEN [completeTo |-> completeTo, complete |-> complete, p |-> p]
    ELSE LET entry == es[k]
         IN  IF entry.offset + Len(entry.data) < offset
             THEN GetScanStopsAtGap(es, k + 1, offset, p, completeTo, complete)
             ELSE IF entry.offset > offset + Len(p) \/ completeTo < entry.offset
                  THEN [completeTo |-> completeTo, complete |-> FALSE, p |-> p]
                  ELSE LET offsetDelta == entry.offset - offset
                           p2 == IF offsetDelta < 0
                                 THEN Copy(p, 0, SliceFrom(entry.data, -offsetDelta))
                                 ELSE Copy(p, offsetDelta, entry.data)
                       IN  GetScanStopsAtGap(es, k + 1, offset, p2,
                                             entry.offset + Len(entry.data),
                                             complete)

\* Get: the same scan, which goes on after a gap to fill p.  GetScan is the
\* loop from entry k on; it yields completeTo, complete and the buffer, and
\* inBounds: every slice bound of lines 113 and 115 was within its slice.
RECURSIVE GetScan(_, _, _, _, _, _)
GetScan(es, k, offset, p, completeTo, complete) ==
    IF k > Len(es)
    THEN [completeTo |-> completeTo, complete |-> complete, p |-> p,
          inBounds |-> TRUE]
    ELSE LET entry == es[k]
         IN  IF entry.offset + Len(entry.data) < offset
             THEN GetScan(es, k + 1, offset, p, completeTo, complete)
             ELSE IF entry.offset > offset + Len(p)
                  THEN [completeTo |-> completeTo, complete |-> complete, p |-> p,
                        inBounds |-> TRUE]
                  ELSE LET offsetDelta == entry.offset - offset
                           p2 == IF offsetDelta < 0
                                 THEN Copy(p, 0, SliceFrom(entry.data, -offsetDelta))
                                 ELSE Copy(p, offsetDelta, entry.data)
                           sliceOK == IF offsetDelta < 0
                                      THEN -offsetDelta \in 0..Len(entry.data)
                                      ELSE offsetDelta \in 0..Len(p)
                           rest == GetScan(es, k + 1, offset, p2,
                                           entry.offset + Len(entry.data),
                                           complete /\ ~(completeTo < entry.offset))
                       IN  [rest EXCEPT !.inBounds = @ /\ sliceOK]

\* Get(offset, p) = [ok |-> the boolean returned, p |-> p after the call].
Get(c, offset, p) ==
    IF Len(c.entries) = 0 /\ Len(p) > 0
    THEN [ok |-> FALSE, p |-> p]
    ELSE LET r == GetScan(c.entries, 1, offset, p, offset, TRUE)
         IN  [ok |-> r.complete /\ r.completeTo >= offset + Len(p), p |-> r.p]

\* Get(offset, p) computes no slice bound outside its slice.
GetInBounds(c, offset, p) ==
    \/ Len(c.entries) = 0 /\ Len(p) > 0
    \/ GetScan(c.entries, 1, offset, p, offset, TRUE).inBounds

----------------------------------------------------------------------------
\* compact.

\* `next` is a pointer to the slot c.entries[i+1].  After
\* append(c.entries[:i+1], c.entries[i+2:]...) has shifted the tail of the
\* list down in place, that slot holds the entry that followed the removed
\* one; when the removed entry was the last one, nothing is moved and the
\* slot still holds the removed entry.  len(next.data) on line 166 is the
\* length of what the slot holds then.
NextAfterDelete(es, i) ==
    IF i + 3 <= Len(es) THEN es[i + 3] ELSE es[i + 2]

\* Combine without copy(newData, current.data) (line 186 left out): the
\* first part of the new data stays zero.
CombineNoCopyCurrent(current, next) ==
    LET currentMin == current.offset
        currentMax == current.offset + Len(current.data)
        nextMax == next.offset + Len(next.data)
        newData == Copy(ZeroBuf(nextMax - currentMin),
                        currentMax - currentMin, next.data)
    IN  [order |-> current.order, offset |-> currentMin, data |-> newData]

\* The entry that replaces current and next when they are combined
\* (lines 185-188).
Combine(current, next) ==
    LET currentMin == current.offset
        currentMax == current.offset + Len(current.data)
        nextMax == next.offset + Len(next.data)
        newData == Copy(Copy(ZeroBuf(nextMax - currentMin), 0, current.data),
                        currentMax - currentMin, next.data)
    IN  [order |-> current.order, offset |-> currentMin, data |-> newData]

\* Reslice that shortens next.data and leaves next.offset where it was
\* (line 177 forgotten).
ResliceKeepsOffset(current, next) ==
    LET currentMin == current.offset
        currentMax == current.offset + Len(current.data)
        nextMin == next.offset
    IN  IF current.order < next.order
        THEN [current |-> [current EXCEPT !.data = SliceTo(@, nextMin - currentMin)],
              next |-> next]
        ELSE [current |-> current,
              next |-> [next EXCEPT !.data = SliceFrom(@, currentMax - nextMin)]]

\* One pair (current, next) resliced so that the two become contiguous
\* (lines 170-179): the older of the two gives way.
Reslice(current, next) ==
    LET currentMin == current.offset
        currentMax == current.offset + Len(current.data)
        nextMin == next.offset
    IN  IF current.order < next.order
        THEN [current |-> [current EXCEPT !.data = SliceTo(@, nextMin - currentMin)],
              next |-> next]
        ELSE [current |-> current,
              next |-> [next EXCEPT !.data = SliceFrom(@, currentMax - nextMin),
                                    !.offset = currentMax]]

\* One iteration of the loop of compact at index i (Go index), lines
\* 149-191: the list, occupancy and i as they are when the loop comes back
\* to its head (after i-- and i++ the same i, after i++ alone the next one).
\* inBounds says that every slice bound the iteration computed was within
\* the slice it was applied to (and the length given to make was not
\* negative); Go panics otherwise.
compactIter(es, occ, i, minC) ==
    LET current == es[i + 1]
        next == es[i + 2]
        currentMin == current.offset
        currentMax == current.offset + Len(current.data)
        nextMin == next.offset
        nextMax == next.offset + Len(next.data)
    IN
      IF nextMin < currentMax /\ nextMax <= currentMax
      THEN \* current encompasses next: copy if next is newer, remove next.
           LET cur2 == IF current.order < next.order
                       THEN [current EXCEPT
                               !.data = Copy(@, nextMin - currentMin, next.data)]
                       ELSE current
           IN  [entries |-> Delete([es EXCEPT ![i + 1] = cur2], i),
                occupancy |-> occ - Len(NextAfterDelete(es, i).data),
                i |-> i,
                inBounds |-> \/ ~(current.order < next.order)
                             \/ nextMin - currentMin \in 0..Len(current.data)]
      ELSE
        LET overlap == nextMin < currentMax
            r == IF overlap THEN Reslice(current, next)
                 ELSE [current |-> current, next |-> next]
            occ2 == IF overlap THEN occ - (currentMax - nextMin) ELSE occ
            es2 == [es EXCEPT ![i + 1] = r.current, ![i + 2] = r.next]
            currentMax2 == r.current.offset + Len(r.current.data)
            nextMin2 == r.next.offset
            resliceOK ==
                \/ ~overlap
                \/ IF current.order < next.order
                   THEN nextMin - currentMin \in 0..Len(current.data)
                   ELSE currentMax - nextMin \in 0..Len(next.data)
        IN  IF currentMax2 = nextMin2 /\ nextMax - currentMin <= minC
            THEN [entries |->
                     Delete([es2 EXCEPT ![i + 1] = Combine(r.current, r.next)], i),
                  occupancy |-> occ2,
                  i |-> i,
                  inBounds |-> /\ resliceOK
                               /\ nextMax - currentMin >= 0
                               /\ currentMax2 - currentMin
                                      \in 0..(nextMax - currentMin)]
            ELSE [entries |-> es2, occupancy |-> occ2, i |-> i + 1,
                  inBounds |-> resliceOK]

\* The loop of compact from index i on (Go index); steps counts iterations.
RECURSIVE compactLoop(_, _, _, _, _)
compactLoop(es, occ, i, minC, steps) ==
    IF ~(i < Len(es) - 1)
    THEN [entries |-> es, occupancy |-> occ, steps |-> steps, inBounds |-> TRUE]
    ELSE LET r == compactIter(es, occ, i, minC)
             rest == compactLoop(r.entries, r.occupancy, r.i, minC, steps + 1)
         IN  [rest EXCEPT !.inBounds = @ /\ r.inBounds]

compact(es, occ, minC) == compactLoop(es, occ, 0, minC, 0)

\* Set that assigns length without comparing it first (the test of line 132
\* left out).
SetLengthLast(c, offset, p) ==
    LET i == Search(c.entries, offset)
        es == Insert(c.entries, i,
                     [order |-> c.insertCount, offset |-> offset, data |-> p])
        r == compact(es, c.occupancy + Len(p), c.minContiguous)
    IN  [minContiguous |-> c.minContiguous,
         entries |-> r.entries,
         insertCount |-> c.insertCount + 1,
         occupancy |-> r.occupancy,
         length |-> offset + Len(p)]

\* Set(offset, p) applied to the store c.
Set(c, offset, p) ==
    LET i == Search(c.entries, offset)
        es == Insert(c.entries, i,
                     [order |-> c.insertCount, offset |-> offset, data |-> p])
        len == IF c.length < offset + Len(p) THEN offset + Len(p) ELSE c.length
        r == compact(es, c.occupancy + Len(p), c.minContiguous)
    IN  [minContiguous |-> c.minContiguous,
         entries |-> r.entries,
         insertCount |-> c.insertCount + 1,
         occupancy |-> r.occupancy,
         length |-> len]


\* Set(offset, p) applied to the store c computes no slice bound outside its
\* slice in compact.
SetInBounds(c, offset, p) ==
    LET i == Search(c.entries, offset)
        es == Insert(c.entries, i,
                     [order |-> c.insertCount, offset |-> offset, data |-> p])
    IN  /\ i \in 0..Len(c.entries)
        /\ compact(es, c.occupancy + Len(p), c.minContiguous).inBounds

----------------------------------------------------------------------------
\* The state machine: one store, and a caller that makes up to MaxCalls calls
\* on it, one after the other (the store is single-threaded).

\* The store held in the variables.
Store ==
    [minContiguous |-> minContiguous, entries |-> entries,
     insertCount |-> insertCount, occupancy |-> occupancy, length |-> length]

NoRet == [op |-> "none"]

Init ==
    /\ minContiguous \in MinContiguousChoices
    /\ entries = NewStore(minContiguous).entries
    /\ insertCount = NewStore(minContiguous).insertCount
    /\ occupancy = NewStore(minContiguous).occupancy
    /\ length = NewStore(minContiguous).length
    /\ calls = <<>>
    /\ ncalls = 0
    /\ ret = NoRet
    /\ pc = "idle"
    /\ compactI = 0

SetCall ==
    /\ pc = "idle"
    /\ ncalls < MaxCalls
    /\ ncalls' = ncalls + 1
    /\ \E offset \in Offsets, p \in Buffers :
         LET c == Set(Store, offset, p)
         IN  /\ entries' = c.entries
             /\ insertCount' = c.insertCount
             /\ occupancy' = c.occupancy
             /\ length' = c.length
             /\ calls' = Append(calls, [offset |-> offset, p |-> p])
             /\ ret' = [op |-> "Set", offset |-> offset, p |-> p]
    /\ UNCHANGED <<minContiguous, pc, compactI>>

\* A Get that reslices the entry it reads from in place, as compact does
\* through its pointers (entry.data = entry.data[-offsetDelta:] on line 113).
GetCallReslices ==
    /\ pc = "idle"
    /\ ncalls < MaxCalls
    /\ ncalls' = ncalls + 1
    /\ \E offset \in Offsets, n \in 0..MaxLen :
         /\ ret' = [op |-> "Get", offset |-> offset, n |-> n,
                    r |-> Get(Store, offset, ZeroBuf(n))]
         /\ entries' =
              [k \in 1..Len(entries) |->
                  IF /\ entries[k].offset < offset
                     /\ entries[k].offset + Len(entries[k].data) >= offset
                  THEN [entries[k] EXCEPT
                          !.data = SliceFrom(@, offset - entries[k].offset)]
                  ELSE entries[k]]
    /\ UNCHANGED <<minContiguous, insertCount, occupancy, length, calls,
                   pc, compactI>>

GetCall ==
    /\ pc = "idle"
    /\ ncalls < MaxCalls
    /\ ncalls' = ncalls + 1
    /\ \E offset \in Offsets, n \in 0..MaxLen :
         ret' = [op |-> "Get", offset |-> offset, n |-> n,
                 r |-> Get(Store, offset, ZeroBuf(n))]
    /\ UNCHANGED <<minContiguous, entries, insertCount, occupancy, length, calls,
                   pc, compactI>>

HasCall ==
    /\ pc = "idle"
    /\ ncalls < MaxCalls
    /\ ncalls' = ncalls + 1
    /\ \E offset \in Offsets, n \in 0..MaxLen :
         ret' = [op |-> "Has", offset |-> offset, n |-> n,
                 r |-> Has(Store, offset, n)]
    /\ UNCHANGED <<minContiguous, entries, insertCount, occupancy, length, calls,
                   pc, compactI>>

OccupancyCall ==
    /\ pc = "idle"
    /\ ncalls < MaxCalls
    /\ ncalls' = ncalls + 1
    /\ ret' = [op |-> "Occupancy", r |-> Occupancy(Store)]
    /\ UNCHANGED <<minContiguous, entries, insertCount, occupancy, length, calls,
                   pc, compactI>>

LengthCall ==
    /\ pc = "idle"
    /\ ncalls < MaxCalls
    /\ ncalls' = ncalls + 1
    /\ ret' = [op |-> "Length", r |-> Length(Store)]
    /\ UNCHANGED <<minContiguous, entries, insertCount, occupancy, length, calls,
                   pc, compactI>>

Next == SetCall \/ GetCall \/ HasCall \/ OccupancyCall \/ LengthCall

Spec == Init /\ [][Next]_vars

----------------------------------------------------------------------------
\* Set with the loop of compact taken one iteration at a time.

\* Lines 127-138 and the entry into compact (line 146, i := 0).
SetBegin ==
    /\ pc = "idle"
    /\ ncalls < MaxCalls
    /\ ncalls' = ncalls + 1
    /\ \E offset \in Offsets, p \in Buffers :
         /\ entries' = Insert(entries, Search(entries, offset),
                              [order |-> insertCount, offset |-> offset, data |-> p])
         /\ length' = IF length < offset + Len(p) THEN offset + Len(p) ELSE length
         /\ occupancy' = occupancy + Len(p)
         /\ calls' = Append(calls, [offset |-> offset, p |-> p])
    /\ insertCount' = insertCount + 1
    /\ pc' = "compact"
    /\ compactI' = 0
    /\ UNCHANGED <<minContiguous, ret>>

\* One iteration of the loop (lines 146-192), while i < len(c.entries)-1.
CompactStep ==
    /\ pc = "compact"
    /\ compactI < Len(entries) - 1
    /\ LET r == compactIter(entries, occupancy, compactI, minContiguous)
       IN  /\ entries' = r.entries
           /\ occupancy' = r.occupancy
           /\ compactI' = r.i
    /\ UNCHANGED <<minContiguous, insertCount, length, calls, ncalls, ret, pc>>

\* The loop condition fails: compact returns, and Set with it.
CompactReturn ==
    /\ pc = "compact"
    /\ ~(compactI < Len(entries) - 1)
    /\ pc' = "idle"
    /\ compactI' = 0
    /\ ret' = [op |-> "Set", offset |-> calls[Len(calls)].offset,
               p |-> calls[Len(calls)].p]
    /\ UNCHANGED <<minContiguous, entries, insertCount, occupancy, length,
                   calls, ncalls>>

NextSteps == SetBegin \/ CompactStep \/ CompactReturn

\* A Set runs on the caller's thread to its end: an iteration that can be
\* taken is taken, and so is the return.  Nothing makes the caller call Set.
SpecSteps ==
    /\ Init
    /\ [][NextSteps]_vars
    /\ WF_vars(CompactStep)
    /\ WF_vars(CompactReturn)

----------------------------------------------------------------------------
\* What the history of Set calls says the store holds.

\* One position past the largest end a Set of the model can write.
MaxPos == MaxOffset + MaxLen
Positions == 0..MaxPos
\* Every request Get(offset, p), Has(offset, n) with its range in Positions
\* or starting at the end of it.
Requests == {r \in [offset : 0..MaxPos + 1, n : 0..MaxPos + 1] : r.offset + r.n <= MaxPos + 1}

\* The call wrote position q.
Covers(call, q) == call.offset <= q /\ q < call.offset + Len(call.p)
Writers(q) == {k \in 1..Len(calls) : Covers(calls[k], q)}
Written(q) == Writers(q) # {}
\* The value the most recent Set that covers q supplied for q.
LastValue(q) ==
    LET k == CHOOSE w \in Writers(q) : \A j \in Writers(q) : j <= w
    IN  calls[k].p[q - calls[k].offset + 1]

\* The position q is held by a segment of the store c.
Held(c, q) ==
    \E k \in 1..Len(c.entries) :
        c.entries[k].offset <= q /\ q < c.entries[k].offset + Len(c.entries[k].data)

\* What a caller can observe of a store through Get and Has.
Contents(c) == [r \in Requests |-> Get(c, r.offset, ZeroBuf(r.n))]
Completeness(c) == [r \in Requests |-> Has(c, r.offset, r.n)]

\* The store a caller gets from NewStore(WithMinContiguous(minC)) and the
\* first n Set calls of the history.
RECURSIVE Replay(_, _)
Replay(minC, n) ==
    IF n = 0 THEN NewStore(minC)
    ELSE Set(Replay(minC, n - 1), calls[n].offset, calls[n].p)

SumLen(es) ==
    LET RECURSIVE Sum(_)
        Sum(k) == IF k = 0 THEN 0 ELSE Sum(k - 1) + Len(es[k].data)
    IN  Sum(Len(es))

----------------------------------------------------------------------------
\* C1: last write wins.  At every position that some Set covered, Get
\* returns the value of the most recent Set covering it, whether the
\* position is read on its own or as part of a longer range.
C1_LastWriteWins ==
    \A r \in Requests : \A k \in 1..r.n :
        Written(r.offset + k - 1) =>
            Get(Store, r.offset, ZeroBuf(r.n)).p[k] = LastValue(r.offset + k - 1)

\* C2: read your write.  Right after Set(offset, values), Get over the
\* written range is complete and returns values, and Has is true.
C2_ReadYourWrite ==
    ret.op = "Set" =>
        /\ Get(Store, ret.offset, ZeroBuf(Len(ret.p))) = [ok |-> TRUE, p |-> ret.p]
        /\ Has(Store, ret.offset, Len(ret.p))

\* C3: Has is exact.  Has(offset, n) is true iff every position of
\* [offset, offset+n) was covered by some Set of the history.
C3_HasExact ==
    LET written == {q \in Positions : Written(q)}
        c == Store
    IN  \A r \in Requests :
            Has(c, r.offset, r.n) <=>
                \A q \in r.offset..(r.offset + r.n - 1) : q \in written

\* C3 witness: Has was asked for a non-empty range that no single Set wrote
\* (two Sets make it up) and said yes, while the store still has a hole
\* elsewhere that Has reports.
C3_Witness ==
    /\ ret.op = "Has" /\ ret.r = TRUE /\ ret.n >= 2
    /\ \A k \in 1..Len(calls) :
         \E q \in ret.offset..(ret.offset + ret.n - 1) : ~Covers(calls[k], q)
    /\ \E r \in Requests : ~Has(Store, r.offset, r.n)

\* C4: Get and Has agree.  The boolean of Get(offset, p) is Has(offset,
\* len(p)) for every request; on the empty store both are true for a
\* zero-length request and false for any other.
C4_GetHasAgree ==
    LET c == Store
    IN  \A r \in Requests :
            /\ Get(c, r.offset, ZeroBuf(r.n)).ok = Has(c, r.offset, r.n)
            /\ entries = <<>> => Has(c, r.offset, r.n) = (r.n = 0)

\* C4 witness: Get returned false for a range with a gap and still copied
\* the segment after the gap; Has says false for the same range.
C4_Witness ==
    /\ ret.op = "Get" /\ ret.r.ok = FALSE
    /\ \E j, k \in 1..ret.n : j < k /\ ret.r.p[j] = 0 /\ ret.r.p[k] # 0
    /\ ~Has(Store, ret.offset, ret.n)

\* C5: occupancy is the sum of the lengths of the stored segments.
C5_OccupancyIsSum == Occupancy(Store) = SumLen(entries)

\* C6: Occupancy() <= Length().
C6_OccupancyLeLength == Occupancy(Store) <= Length(Store)

\* C7: idempotence.  Right after Set(offset, values), a second identical
\* Set leaves Occupancy and everything Get returns as they are.
C7_Idempotent ==
    ret.op = "Set" =>
        LET twice == Set(Store, ret.offset, ret.p)
        IN  /\ Occupancy(twice) = Occupancy(Store)
            /\ Contents(twice) = Contents(Store)

\* C8: the merge threshold is not observable.  For the same Set calls, the
\* store that never merges and the store with the default threshold give
\* the same Length, Occupancy, contents and completeness.
C8_ThresholdNotObservable ==
    LET never == Replay(1, Len(calls))
        default == Replay(defaultMinContiguous, Len(calls))
    IN  /\ Length(never) = Length(default)
        /\ Occupancy(never) = Occupancy(default)
        /\ Contents(never) = Contents(default)
        /\ Completeness(never) = Completeness(default)

\* C9: the segment list is ordered and disjoint: each segment ends at or
\* before the offset of the one after it.
C9_SortedDisjoint ==
    \A k \in 1..(Len(entries) - 1) :
        /\ entries[k].offset <= entries[k + 1].offset
        /\ entries[k].offset + Len(entries[k].data) <= entries[k + 1].offset

\* C9 witness: the last Set partly overlapped an earlier one (neither range
\* contains the other) and the store holds more than one segment.
C9_Witness ==
    /\ ret.op = "Set" /\ Len(entries) >= 2
    /\ \E k \in 1..(Len(calls) - 1) :
         LET a == calls[k]
             b == calls[Len(calls)]
         IN  /\ \E q \in Positions : Covers(a, q) /\ Covers(b, q)
             /\ \E q \in Positions : Covers(a, q) /\ ~Covers(b, q)
             /\ \E q \in Positions : ~Covers(a, q) /\ Covers(b, q)

\* C10: merge invariant.  No two adjacent segments touch and have a
\* combined length of at most minContiguous.
C10_MergeInvariant ==
    \A k \in 1..(Len(entries) - 1) :
        ~(/\ entries[k].offset + Len(entries[k].data) = entries[k + 1].offset
          /\ Len(entries[k].data) + Len(entries[k + 1].data) <= minContiguous)

\* The largest end offset + len(p) over the Set calls made so far.
MaxEnd ==
    LET RECURSIVE M(_)
        M(k) == IF k = 0 THEN 0
                ELSE LET e == calls[k].offset + Len(calls[k].p)
                     IN  IF M(k - 1) < e THEN e ELSE M(k - 1)
    IN  M(Len(calls))

\* The value the store c holds at position q: that of the first segment
\* in list order that holds q.
SegValue(c, q) ==
    LET k == CHOOSE j \in 1..Len(c.entries) :
                 /\ c.entries[j].offset <= q
                 /\ q < c.entries[j].offset + Len(c.entries[j].data)
    IN  c.entries[k].data[q - c.entries[k].offset + 1]

\* A caller's buffer of n elements that are no stored values and all differ,
\* so that an element Get does not touch is told from one it copies.
MarkedBuf(n) == [k \in 1..n |-> 0 - k]

\* C11: Length() is the largest offset + len(values) over the Set calls made
\* so far (0 for a new store), is at least the end of every stored segment,
\* and no step decreases it.
C11_LengthIsMaxEnd ==
    /\ [](/\ Length(Store) = MaxEnd
          /\ \A k \in 1..Len(entries) :
                entries[k].offset + Len(entries[k].data) <= Length(Store))
    /\ [][length' >= length]_vars

\* C11 witness: the last Set ended below the length the store already had.
C11_Witness ==
    /\ ret.op = "Set"
    /\ ret.offset + Len(ret.p) < Length(Store)
    /\ Len(ret.p) > 0

\* C12: writing an empty sequence changes neither Occupancy nor anything
\* Get and Has return, at whatever offset it is written.
C12_EmptySetNoOp ==
    \A offset \in Offsets :
        LET after == Set(Store, offset, <<>>)
        IN  /\ Occupancy(after) = Occupancy(Store)
            /\ Contents(after) = Contents(Store)
            /\ Completeness(after) = Completeness(Store)

\* C13: Get fills everything that is available.  For every request and a
\* buffer of marked elements, after Get each element whose position is held
\* by a segment is that segment's value and every other element is the mark
\* it was, whatever Get returns.
C13_GetFillsAvailable ==
    LET c == Store
    IN  \A r \in Requests :
            LET got == Get(c, r.offset, MarkedBuf(r.n))
            IN  /\ Len(got.p) = r.n
                /\ \A k \in 1..r.n :
                      got.p[k] = IF Held(c, r.offset + k - 1)
                                 THEN SegValue(c, r.offset + k - 1)
                                 ELSE MarkedBuf(r.n)[k]

\* C13 witness: a Get that started inside a segment (which began before the
\* requested offset), copied what the segment holds, ran past its end and
\* returned false with the rest of the buffer as it was.
C13_Witness ==
    /\ ret.op = "Get" /\ ret.n >= 2 /\ ret.r.ok = FALSE
    /\ ret.r.p[1] # 0 /\ ret.r.p[ret.n] = 0
    /\ \E k \in 1..Len(entries) :
         entries[k].offset < ret.offset /\ Held(Store, ret.offset)

\* What a caller sees at the single position q: whether it is backed and
\* the value Get returns for it.
At(c, q) == Get(c, q, ZeroBuf(1))

\* C14: frame of Set.  A Set step changes nothing outside its range: at
\* every position q outside [offset, offset+len(values)), whether q is held
\* by a segment and what Get returns at q are as before the step.
C14_SetFrame ==
    [][ret'.op = "Set" /\ calls' # calls =>
          \A q \in Positions :
              ~Covers(ret', q) =>
                  /\ Held(Store', q) = Held(Store, q)
                  /\ At(Store', q) = At(Store, q)]_vars

\* C14 witness: the last Set partly overlapped an earlier one and was combined
\* with what was left of it into a single segment, which holds positions
\* outside the range of the last Set.
C14_Witness ==
    /\ ret.op = "Set" /\ Len(entries) = 1 /\ Len(calls) >= 2
    /\ \E q \in Positions : Covers(ret, q) /\ Covers(calls[Len(calls) - 1], q)
    /\ \E q \in Positions : ~Covers(ret, q) /\ Held(Store, q)
    /\ \E q \in Positions : Covers(ret, q) /\ ~Covers(calls[Len(calls) - 1], q)

\* C15: coverage is stable.  A range for which Has is true before a step is
\* one for which Has is true after it.
C15_CoverageStable ==
    [][\A r \in Requests :
          Has(Store, r.offset, r.n) => Has(Store', r.offset, r.n)]_vars

\* C15 witness: the last Set lies inside a longer range that was complete
\* before it and is complete after it, and it overwrote stored data.
C15_Witness ==
    /\ ret.op = "Set" /\ Len(ret.p) > 0 /\ Len(calls) >= 2
    /\ \E r \in Requests :
         /\ r.offset <= ret.offset
         /\ ret.offset + Len(ret.p) <= r.offset + r.n
         /\ Len(ret.p) < r.n
         /\ Has(Replay(minContiguous, Len(calls) - 1), r.offset, r.n)
         /\ Has(Store, r.offset, r.n)

\* C16: reads do not mutate the store.  A step of Get, Has, Occupancy or
\* Length leaves the segment list, the write counter, occupancy, length and
\* the threshold as they were.
C16_ReadsDoNotMutate ==
    [][ret'.op \in {"Get", "Has", "Occupancy", "Length"} =>
          /\ entries' = entries
          /\ insertCount' = insertCount
          /\ occupancy' = occupancy
          /\ length' = length
          /\ minContiguous' = minContiguous]_vars

\* C16 witness: a Get that started inside a segment and copied from it.
C16_Witness ==
    /\ ret.op = "Get" /\ ret.n >= 1 /\ ret.r.ok
    /\ \E k \in 1..Len(entries) : entries[k].offset < ret.offset

\* C17: compaction terminates.  A Set that has entered compact leaves it
\* and returns; and every iteration of the loop either moves on to the next
\* index with the list as long as it was, or stays at its index (the
\* rewind) with the list one segment shorter.
C17_CompactionTerminates ==
    /\ (pc = "compact") ~> (pc = "idle")
    /\ [][pc = "compact" /\ pc' = "compact" =>
            \/ compactI' = compactI + 1 /\ Len(entries') = Len(entries)
            \/ compactI' = compactI /\ Len(entries') = Len(entries) - 1]_vars

\* C17 witness: a Set has returned whose compaction rewound at least twice:
\* the list is shorter than it was before the Set inserted its entry.
C17_Witness ==
    /\ pc = "idle" /\ ret.op = "Set" /\ Len(calls) >= 1
    /\ Len(entries) < Len(Replay(minContiguous, Len(calls) - 1).entries)

\* C18: no operation faults.  In every reachable state, every Get and every
\* Set a caller can make next computes only slice bounds that lie within
\* 0..len of the slice they are applied to (Has computes none).
C18_NoFaults ==
    LET c == Store
    IN  /\ \A r \in Requests : GetInBounds(c, r.offset, ZeroBuf(r.n))
        /\ \A offset \in Offsets, p \in Buffers : SetInBounds(c, offset, p)

\* C18 witness: a Set whose compaction resliced next (lines 176-177), which
\* shows as a segment that starts where no Set call started, and a store
\* from which a Get that starts inside a segment takes entry.data[k:] with
\* k > 0 (line 113).
C18_Witness ==
    /\ ret.op = "Set"
    /\ \E k \in 1..Len(entries) :
         /\ \A j \in 1..Len(calls) : calls[j].offset # entries[k].offset
         /\ Len(entries[k].data) > 0
    /\ \E k \in 1..Len(entries) : Len(entries[k].data) >= 2

====
